---- MODULE Spec2Model ----
(***************************************************************************)
(* A model of the two notebooks of intro-to-pytorch that are concatenated  *)
(* in "Part 3 - Training Neural Networks (Exercises).ipynb":               *)
(*   - Part 3 (lines 1-661): losses, autograd, one training step and the   *)
(*     training loop.  It is modelled as a program: a sequence of cells,   *)
(*     each a sequence of statements, run in order (specification Spec).   *)
(*   - Part 2 (lines 663-1337): the hand-built network and softmax, the    *)
(*     Network classes (specification SpecFn, pure functions on inputs     *)
(*     drawn from small sets).                                             *)
(* Numbers: weights are fixed-point in units of 1/1000, gradients and      *)
(* losses are whole units, so lr = 0.01 is 10 and lr = 0.003 is 3 and      *)
(* w - lr*g is exact.  What the framework computes from the image data     *)
(* (the loss value and its gradient) is drawn from small sets.             *)
(***************************************************************************)
EXTENDS Integers, Sequences, FiniteSets, TLC

(* ------------------------------ bounds -------------------------------- *)
\* number of samples of the training set (MNIST: 60000 = 937*64 + 32;
\* the model keeps the remainder 32: 96 = 1*64 + 32)
TrainsetSize == 96
\* number of tracked samples whose batch membership is followed
NumProbes == 1
\* weights stay within -MaxWeight..MaxWeight (units of 1/1000)
MaxWeight == 10

(* ------------------------- program constants -------------------------- *)
batch_size == 64
epochs == 5
lr_c13 == 10
lr_c20 == 3

(* ------------------------------ helpers ------------------------------- *)
\* Python's None for a tensor attribute, and a present value
None == << >>
Some(v) == <<v>>
Val(o) == o[1]

Params == {"weight", "bias"}
GradValues == {-1, 0, 1}
LossValues == {1, 2}
InitWeightValues == {0}
Probes == 1..NumProbes
\* the classes of the MNIST digits: the values a label can take
DatasetClasses == 0..9

Abs(n) == IF n < 0 THEN -n ELSE n

IndexOf(seq, s) == CHOOSE i \in 1..Len(seq) : seq[i] = s

(* ------------------------------ layers -------------------------------- *)
Linear(i, o) == [op |-> "Linear", in |-> i, out |-> o]
Act(name) == [op |-> name, in |-> 0, out |-> 0]

\* nn.Sequential(...) of each cell that builds a model
ModelLayers ==
  [model_c2  |-> <<Linear(784, 128), Act("ReLU"), Linear(128, 64), Act("ReLU"),
                   Linear(64, 10)>>,
   model_c4  |-> <<Linear(784, 256), Act("SELU"), Linear(256, 128), Act("SELU"),
                   Linear(128, 10), Act("LogSoftmax")>>,
   model_c11 |-> <<Linear(784, 128), Act("ReLU"), Linear(128, 64), Act("ReLU"),
                   Linear(64, 10), Act("LogSoftmax")>>,
   model_c20 |-> <<Linear(784, 128), Act("ReLU"), Linear(128, 64), Act("ReLU"),
                   Linear(64, 10), Act("LogSoftmax")>>]

\* criterion = nn.<Loss>() of each cell
CriterionOf ==
  [criterion_c2  |-> "CrossEntropyLoss",
   criterion_c4  |-> "CrossEntropyLoss",
   criterion_c11 |-> "NLLLoss",
   criterion_c20 |-> "NLLLoss"]

\* optimizer = optim.SGD(model.parameters(), lr=...)
LrOf == [optimizer_c13 |-> lr_c13, optimizer_c20 |-> lr_c20]

\* how often log-softmax is applied between the last linear layer and the
\* loss value: once per LogSoftmax layer, and once more inside CrossEntropyLoss,
\* which combines LogSoftmax and NLLLoss
LogSoftmaxCount(layers, crit) ==
  Len(SelectSeq(layers, LAMBDA l : l.op = "LogSoftmax"))
    + (IF crit = "CrossEntropyLoss" THEN 1 ELSE 0)

Linears(layers) == SelectSeq(layers, LAMBDA l : l.op = "Linear")
InFeatures(layers) == Linears(layers)[1].in
\* (mutant) the width of the first hidden layer
OutFeaturesOfFirst(layers) == Linears(layers)[1].out
OutFeatures(layers) == Linears(layers)[Len(Linears(layers))].out

(* ------------------------------ program ------------------------------- *)
\* (mutant) the optimizer steps before the backward pass
TrainingPassStepFirst == <<"zero_grad", "forward", "criterion", "step", "backward">>

\* (mutant) a pass that never updates the parameters
TrainingPassNoStep == <<"zero_grad", "forward", "criterion", "backward">>

\* the training pass of the loop body, lines 579-584
TrainingPass == <<"zero_grad", "forward", "criterion", "backward", "step">>

Cell1  == <<"imports", "transform", "trainset", "trainloader">>
Cell2  == <<"model_c2", "criterion_c2", "first_batch", "flatten",
            "forward_logits", "criterion_logits", "print_loss">>
Cell4  == <<"model_c4", "criterion_c4", "first_batch", "flatten",
            "forward_logits", "criterion_logits", "print_loss">>
Cell5  == <<"x_randn", "print_x">>
Cell6  == <<"y_pow", "print_y">>
Cell7  == <<"print_y_grad_fn">>
Cell8  == <<"z_mean", "print_z">>
Cell9  == <<"print_x_grad">>
Cell10 == <<"z_backward", "print_x_grad", "print_x_half">>
Cell11 == <<"model_c11", "criterion_c11", "first_batch", "flatten",
            "forward_logits", "criterion_logits">>
Cell12 == <<"print_grad", "backward", "print_grad">>
Cell13 == <<"import_optim", "optimizer_c13">>
Cell14 == <<"print_weights", "first_batch", "resize", "zero_grad", "forward",
            "criterion", "backward", "print_grad">>
Cell15 == <<"step", "print_weights">>
Cell20 == <<"model_c20", "criterion_c20", "optimizer_c20", "epochs_5", "for_e",
            "running_loss_0", "iter", "for_batch", "flatten">>
          \o TrainingPass \o <<"running_loss_add", "else_print">>
Cell24 == <<"import_helper", "first_batch", "img_view", "no_grad_forward", "exp",
            "view_classify">>

Notebook == <<Cell1, Cell2, Cell4, Cell5, Cell6, Cell7, Cell8, Cell9, Cell10, Cell11,
              Cell12, Cell13, Cell14, Cell15, Cell20, Cell24>>

VARIABLES
  cell, ip,              \* the statement about to run: Notebook[cell][ip]
  trainloader,           \* the DataLoader
  iterator,              \* the iterator of the inner for loop
  images, labels,        \* the current batch
  model, criterion, optimizer,
  logits, output, loss,  \* results of the forward pass and of the criterion
  x, y, z,               \* the tensors of the autograd cells
  img, logps, ps,        \* the prediction cell
  e, running_loss,
  printed,               \* the number of "Training loss" lines printed
  raised,                \* the cell and statement whose exception ended the run
  calls,                 \* history: framework calls made on the current batch
  nsteps,                \* history: optimizer.step() calls of the current epoch
  seen,                  \* history: batches of the current epoch per tracked sample
  fn_pc, out, targets,   \* Part 2 and the loss functions: the scores and labels
  probabilities, ce, nll, \* softmax(out) and the two losses of (out, targets)
  part2,                 \* the kernel of the Part 2 notebook: position and names
  fwd                    \* a Network, an input and the results of both forward methods

vars == <<cell, ip, trainloader, iterator, images, labels, model, criterion,
          optimizer, logits, output, loss, x, y, z, img, logps, ps,
          e, running_loss, printed, raised, calls, nsteps, seen,
          fn_pc, out, targets, probabilities, ce, nll, part2, fwd>>

nbvars == <<cell, ip, trainloader, iterator, images, labels, model, criterion,
            optimizer, logits, output, loss, x, y, z, img, logps, ps,
            e, running_loss, printed, raised, calls, nsteps, seen>>
fnvars == <<fn_pc, out, targets, probabilities, ce, nll, fwd>>

Done == cell > Len(Notebook)
Stmt == IF Done THEN "done" ELSE Notebook[cell][ip]
InLoop == ~Done /\ Notebook[cell] = Cell20
\* inside the body of the inner loop: a batch of the epoch is being processed
InBody == InLoop /\ Stmt \in {"flatten", "zero_grad", "forward", "criterion",
                               "backward", "step", "running_loss_add"}

\* the statement after the current one, in program order
Advance ==
  IF ip < Len(Notebook[cell])
  THEN cell' = cell /\ ip' = ip + 1
  ELSE cell' = cell + 1 /\ ip' = 1
Goto(s) == cell' = cell /\ ip' = IndexOf(Notebook[cell], s)

(* ------------------------------ tensors ------------------------------- *)
\* torch.Size of a batch of n MNIST images, and its number of elements
ImageShape(n) == <<n, 1, 28, 28>>
RECURSIVE Numel(_)
Numel(shape) == IF shape = << >> THEN 1 ELSE shape[1] * Numel(Tail(shape))
\* (mutant) view(-1, n0): the rows and the columns change places
ViewTransposed(shape, n0) == <<Numel(shape) \div n0, n0>>

\* t.view(n0, -1): the same elements as n0 rows
View(shape, n0) == <<n0, Numel(shape) \div n0>>

NoBatch == [shape |-> << >>, probes |-> {}]
\* no exception has been raised
NotRaised == [cell |-> 0, stmt |-> ""]
\* no tensor is bound to the name.  Of a tensor an operation made, grad_fn
\* names the operation, next the tensor it was applied to, saved the input
\* it keeps for the backward pass and arg its number (exponent, or count).
NoTensor == [data |-> << >>, grad |-> None, grad_fn |-> "", next |-> "", saved |-> << >>,
             arg |-> 0, requires_grad |-> FALSE, nbackward |-> 0]
NoOutput == [shape |-> << >>, graph |-> 0, requires_grad |-> FALSE]
NoLoss == [value |-> 0, g |-> [p \in Params |-> 0], graph |-> 0, freed |-> FALSE]

\* inputs of torch.randn(2,2): even entries, so that x/2 and the mean of the
\* four squares are whole numbers
XInputs == { <<<<-2, 0>>, <<2, -4>>>>, <<<<4, 2>>, <<0, 6>>>> }
Map2(f(_), m) == [i \in 1..2 |-> [j \in 1..2 |-> f(m[i][j])]]
Sum2(m) == m[1][1] + m[1][2] + m[2][1] + m[2][2]

(* ---------------------------- data loader ----------------------------- *)
\* len(trainloader): the number of batches of an epoch (drop_last=False)
LoaderLen == (TrainsetSize + batch_size - 1) \div batch_size

\* iter(trainloader): nothing delivered yet; shuffle=True decides the order
\* as the batches are drawn.  index counts the batches delivered.
NewIter == [remaining |-> TrainsetSize, taken |-> {}, index |-> 0]

\* (mutant) batch_size is ignored: one batch holds all that is left
BatchLenWhole(remaining) == remaining

\* the number of samples of the next batch
BatchLen(remaining) == IF remaining >= batch_size THEN batch_size ELSE remaining

\* (mutant) drop_last=True: an incomplete last batch is not delivered
ExhaustedDropLast(it) == it.remaining < batch_size

\* the iterator raises StopIteration
Exhausted(it) == it.remaining = 0

\* next(it): the batches a shuffled iterator may deliver next.  Of the tracked
\* samples not delivered yet any subset may be in it, as long as the batch
\* and the rest of the epoch can hold them.
NextBatches(it) ==
  LET n == BatchLen(it.remaining)
      left == Probes \ it.taken
  IN { [n |-> n, probes |-> T,
        rest |-> [remaining |-> it.remaining - n, taken |-> it.taken \cup T,
                  index |-> it.index + 1]] :
       T \in { S \in SUBSET left :
                 /\ Cardinality(S) <= n
                 /\ n - Cardinality(S) <= it.remaining - Cardinality(left) } }

(* ---------------------------- autograd -------------------------------- *)
\* (mutant) a tensor without gradient is not given one
AccumulateSkipsNone(grad, g) == IF grad = None THEN None ELSE Some(Val(grad) + g)

\* t.grad after a backward pass that delivers g: gradients accumulate
Accumulate(grad, g) == IF grad = None THEN Some(g) ELSE Some(Val(grad) + g)

\* (mutant) zero_grad() that clears nothing
ZeroedGradKept(grad) == grad

\* optimizer.zero_grad() on one parameter: a gradient that exists is zeroed
\* in place, a missing one stays missing
ZeroedGrad(grad) == IF grad = None THEN None ELSE Some(0)

\* (mutant) a step that uses up the gradient
GradConsumedByStep(grad) == ZeroedGrad(grad)

\* optimizer.step() reads the gradient of a parameter and leaves it
GradAfterStep(grad) == grad

\* (mutant) a step up the gradient
SgdAscent(w, grad, lr) == IF grad = None THEN w ELSE w + lr * Val(grad)

\* optimizer.step() of SGD on one parameter: w - lr * w.grad; a parameter
\* without gradient is skipped
SgdUpdate(w, grad, lr) == IF grad = None THEN w ELSE w - lr * Val(grad)

\* the gradients autograd may compute for a loss: any, as long as a step of an
\* optimizer bound to the model keeps the weights within the bound
Gradients ==
  { g \in [Params -> GradValues] :
      optimizer.params = model.id =>
        \A p \in Params : Abs(model.weight[p] - optimizer.lr * g[p]) <= MaxWeight }

(* ------------------------- the Part 2 notebook ------------------------ *)
\* the cells of Part 2, lines 663-1337, up to the cells that initialise fc1
Part2 == <<"first_batch", "inputs_view", "weights", "layer1", "out", "softmax",
           "print_shape", "print_sum", "class_network", "model_network", "class_network_f", "your_solution",
           "print_fc1", "fill_bias", "normal_weight">>

\* a contiguous tensor is its shape and its elements in row-major order
NoData == [shape |-> << >>, storage |-> << >>]

\* a fresh kernel: no name is bound (bound is the set of the bound names)
Part2Fresh ==
  [pc |-> 1, raised |-> "", bound |-> {},
   images |-> NoData, labels |-> NoData, inputs |-> NoData,
   w1 |-> << >>, b1 |-> << >>, w2 |-> << >>, b2 |-> << >>,
   layer1 |-> << >>, out |-> << >>, probabilities |-> << >>,
   Network |-> "", model |-> [class |-> "", attrs |-> {}]]

(* ------------------------------- Init --------------------------------- *)
\* the functions of specification SpecFn are not running
FnIdle ==
  /\ fn_pc = "idle" /\ out = << >> /\ targets = << >>
  /\ probabilities = [num |-> << >>, den |-> 0] /\ ce = None /\ nll = None
  /\ fwd = [net |-> << >>, x |-> << >>, module |-> << >>, functional |-> << >>]

NotebookInit ==
  /\ cell = 1 /\ ip = 1
  /\ trainloader = [size |-> 0, batch_size |-> 0, shuffle |-> FALSE, classes |-> {}]
  /\ iterator = [remaining |-> 0, taken |-> {}, index |-> 0]
  /\ images = NoBatch /\ labels = NoBatch
  /\ model = [id |-> 0, layers |-> << >>, weight |-> [p \in Params |-> 0],
              grad |-> [p \in Params |-> None], nbackward |-> 0]
  /\ criterion = ""
  /\ optimizer = [lr |-> 0, params |-> 0]
  /\ logits = NoOutput /\ output = NoOutput /\ loss = NoLoss
  /\ x = NoTensor /\ y = NoTensor /\ z = NoTensor
  /\ img = NoBatch /\ logps = NoOutput /\ ps = NoOutput
  /\ e = -1 /\ running_loss = 0
  /\ printed = 0 /\ raised = NotRaised
  /\ calls = << >> /\ nsteps = 0 /\ seen = [p \in Probes |-> 0]

Init == NotebookInit /\ FnIdle /\ part2 = Part2Fresh

(* ------------------------------ actions ------------------------------- *)
\* trainloader = DataLoader(trainset, batch_size=64, shuffle=True)
Trainloader ==
  /\ Stmt = "trainloader"
  /\ trainloader' = [size |-> TrainsetSize, batch_size |-> batch_size, shuffle |-> TRUE,
                     classes |-> DatasetClasses]
  /\ Advance
  /\ UNCHANGED <<fnvars, part2, raised, iterator, images, labels, model, criterion, optimizer, logits,
                 output, loss, x, y, z, img, logps, ps, e, running_loss, printed,
                 calls, nsteps, seen>>

\* model = nn.Sequential(...): a new network, no parameter has a gradient
NewModel ==
  /\ Stmt \in DOMAIN ModelLayers
  /\ \E w \in [Params -> InitWeightValues] :
       model' = [id |-> model.id + 1, layers |-> ModelLayers[Stmt], weight |-> w,
                 grad |-> [p \in Params |-> None], nbackward |-> 0]
  /\ Advance
  /\ UNCHANGED <<fnvars, part2, raised, trainloader, iterator, images, labels, criterion, optimizer,
                 logits, output, loss, x, y, z, img, logps, ps, e, running_loss,
                 printed, calls, nsteps, seen>>

\* criterion = nn.CrossEntropyLoss() or nn.NLLLoss()
NewCriterion ==
  /\ Stmt \in DOMAIN CriterionOf
  /\ criterion' = CriterionOf[Stmt]
  /\ Advance
  /\ UNCHANGED <<fnvars, part2, raised, trainloader, iterator, images, labels, model, optimizer, logits,
                 output, loss, x, y, z, img, logps, ps, e, running_loss, printed,
                 calls, nsteps, seen>>

\* optimizer = optim.SGD(model.parameters(), lr=...)
NewOptimizer ==
  /\ Stmt \in DOMAIN LrOf
  /\ optimizer' = [lr |-> LrOf[Stmt], params |-> model.id]
  /\ Advance
  /\ UNCHANGED <<fnvars, part2, raised, trainloader, iterator, images, labels, model, criterion, logits,
                 output, loss, x, y, z, img, logps, ps, e, running_loss, printed,
                 calls, nsteps, seen>>

\* images, labels = next(iter(trainloader)): the first batch of a new iterator
FirstBatch ==
  /\ Stmt = "first_batch"
  /\ \E b \in NextBatches(NewIter) :
       /\ images' = [shape |-> ImageShape(b.n), probes |-> b.probes]
       /\ labels' = [shape |-> <<b.n>>, probes |-> b.probes]
  /\ calls' = << >>
  /\ Advance
  /\ UNCHANGED <<fnvars, part2, raised, trainloader, iterator, model, criterion, optimizer, logits,
                 output, loss, x, y, z, img, logps, ps, e, running_loss, printed,
                 nsteps, seen>>

\* images = images.view(images.shape[0], -1)
Flatten ==
  /\ Stmt = "flatten"
  /\ Len(images.shape) >= 1 /\ images.shape[1] >= 1
  /\ images' = [images EXCEPT !.shape = View(images.shape, images.shape[1])]
  /\ Advance
  /\ UNCHANGED <<fnvars, part2, raised, trainloader, iterator, labels, model, criterion, optimizer,
                 logits, output, loss, x, y, z, img, logps, ps, e, running_loss,
                 printed, calls, nsteps, seen>>

\* images.resize_(64, 784)
Resize ==
  /\ Stmt = "resize"
  /\ images' = [images EXCEPT !.shape = <<64, 784>>]
  /\ Advance
  /\ UNCHANGED <<fnvars, part2, raised, trainloader, iterator, labels, model, criterion, optimizer,
                 logits, output, loss, x, y, z, img, logps, ps, e, running_loss,
                 printed, calls, nsteps, seen>>

\* model(images): nn.Linear takes an input of any rank whose last dimension
\* is its in_features and replaces that dimension by its out_features;
\* nn.LogSoftmax(dim=1) needs an input that has a dimension 1
CanForward(input) ==
  /\ model.id > 0
  /\ Len(input.shape) >= 1
  /\ input.shape[Len(input.shape)] = InFeatures(model.layers)
  /\ (\E i \in 1..Len(model.layers) : model.layers[i].op = "LogSoftmax")
       => Len(input.shape) >= 2
Forwarded(input) ==
  [shape |-> [i \in 1..Len(input.shape) |->
                IF i = Len(input.shape) THEN OutFeatures(model.layers)
                ELSE input.shape[i]],
   graph |-> model.id, requires_grad |-> TRUE]

\* logits = model(images)
ForwardLogits ==
  /\ Stmt = "forward_logits"
  /\ CanForward(images)
  /\ logits' = Forwarded(images)
  /\ calls' = Append(calls, "forward")
  /\ Advance
  /\ UNCHANGED <<fnvars, part2, raised, trainloader, iterator, images, labels, model, criterion,
                 optimizer, output, loss, x, y, z, img, logps, ps, e,
                 running_loss, printed, nsteps, seen>>

\* output = model(images)
Forward ==
  /\ Stmt = "forward"
  /\ CanForward(images)
  /\ output' = Forwarded(images)
  /\ calls' = Append(calls, "forward")
  /\ Advance
  /\ UNCHANGED <<fnvars, part2, raised, trainloader, iterator, images, labels, model, criterion,
                 optimizer, logits, loss, x, y, z, img, logps, ps, e,
                 running_loss, printed, nsteps, seen>>

\* criterion(res, labels): scores of the shape (N, C) with N labels, or
\* (N, C, d1, ...) with labels (N, d1, ...), on a graph or off it; the value
\* and the gradient of the result depend on the data
CanScore(res) ==
  /\ criterion # ""
  /\ Len(res.shape) >= 2
  /\ labels.shape = <<res.shape[1]>> \o SubSeq(res.shape, 3, Len(res.shape))
Scored(res) ==
  { [value |-> v, g |-> g, graph |-> res.graph, freed |-> FALSE] :
      v \in LossValues, g \in Gradients }

\* loss = criterion(logits, labels)
CriterionLogits ==
  /\ Stmt = "criterion_logits"
  /\ CanScore(logits)
  /\ loss' \in Scored(logits)
  /\ calls' = Append(calls, "criterion")
  /\ Advance
  /\ UNCHANGED <<fnvars, part2, raised, trainloader, iterator, images, labels, model, criterion,
                 optimizer, logits, output, x, y, z, img, logps, ps, e,
                 running_loss, printed, nsteps, seen>>

\* loss = criterion(output, labels)
Criterion ==
  /\ Stmt = "criterion"
  /\ CanScore(output)
  /\ loss' \in Scored(output)
  /\ calls' = Append(calls, "criterion")
  /\ Advance
  /\ UNCHANGED <<fnvars, part2, raised, trainloader, iterator, images, labels, model, criterion,
                 optimizer, logits, output, x, y, z, img, logps, ps, e,
                 running_loss, printed, nsteps, seen>>

\* loss.backward(): the gradient of the loss is added to the gradient of
\* every parameter of the network that computed it, and the graph is freed
Backward ==
  /\ Stmt = "backward"
  /\ loss.graph > 0 /\ ~loss.freed
  /\ loss' = [loss EXCEPT !.freed = TRUE]
  /\ model' = IF loss.graph = model.id
              THEN [model EXCEPT
                      !.grad = [p \in Params |-> Accumulate(model.grad[p], loss.g[p])],
                      !.nbackward = @ + 1]
              ELSE model
  /\ calls' = Append(calls, "backward")
  /\ Advance
  /\ UNCHANGED <<fnvars, part2, raised, trainloader, iterator, images, labels, criterion, optimizer,
                 logits, output, x, y, z, img, logps, ps, e, running_loss,
                 printed, nsteps, seen>>

\* optimizer.zero_grad()
ZeroGrad ==
  /\ Stmt = "zero_grad"
  /\ optimizer.params > 0
  /\ model' = IF optimizer.params = model.id
              THEN [model EXCEPT !.grad = [p \in Params |-> ZeroedGrad(model.grad[p])]]
              ELSE model
  /\ calls' = Append(calls, "zero_grad")
  /\ Advance
  /\ UNCHANGED <<fnvars, part2, raised, trainloader, iterator, images, labels, criterion, optimizer,
                 logits, output, loss, x, y, z, img, logps, ps, e, running_loss,
                 printed, nsteps, seen>>

\* optimizer.step()
Step ==
  /\ Stmt = "step"
  /\ optimizer.params > 0
  /\ model' = IF optimizer.params = model.id
              THEN [model EXCEPT
                      !.weight = [p \in Params |->
                         SgdUpdate(model.weight[p], model.grad[p], optimizer.lr)],
                      !.grad = [p \in Params |-> GradAfterStep(model.grad[p])]]
              ELSE model
  /\ calls' = Append(calls, "step")
  /\ nsteps' = nsteps + 1
  /\ Advance
  /\ UNCHANGED <<fnvars, part2, raised, trainloader, iterator, images, labels, criterion, optimizer,
                 logits, output, loss, x, y, z, img, logps, ps, e, running_loss,
                 printed, seen>>

\* print(...) of a loss, a tensor, a gradient or the weights, and
\* helper.view_classify(...), which draws the image and ps: no name changes
PrintStmt ==
  /\ Stmt \in {"print_loss", "print_grad", "print_weights", "print_x", "print_y",
               "print_y_grad_fn", "print_z", "print_x_grad", "print_x_half",
               "view_classify"}
  /\ Advance
  /\ UNCHANGED <<fnvars, part2, raised, trainloader, iterator, images, labels, model,
                 criterion, optimizer, logits, output, loss, x, y, z, img, logps, ps, e,
                 running_loss, printed, calls, nsteps, seen>>

\* the imports, transform = ..., trainset = datasets.MNIST(...) and
\* epochs = 5: they bind names the other statements take as given
Setup ==
  /\ Stmt \in {"imports", "transform", "trainset", "import_optim", "epochs_5",
               "import_helper"}
  /\ Advance
  /\ UNCHANGED <<fnvars, part2, raised, trainloader, iterator, images, labels, model,
                 criterion, optimizer, logits, output, loss, x, y, z, img, logps, ps, e,
                 running_loss, printed, calls, nsteps, seen>>

(* ------------------- autograd on the tensors x, y, z ------------------ *)
\* the tensor bound to a name of cells 5-10
Tensor(name) == CASE name = "x" -> x [] name = "y" -> y [] name = "z" -> z

RECURSIVE Pow(_, _)
Pow(v, k) == IF k = 0 THEN 1 ELSE v * Pow(v, k - 1)

\* the operation a result records: none when the input requires no gradient
GradFn(name, fn) == IF Tensor(name).requires_grad THEN fn ELSE ""

\* t ** k for the tensor t bound to name: every entry to the k-th power;
\* PowBackward0 keeps the input and the exponent
pow(name, k) ==
  [data |-> Map2(LAMBDA v : Pow(v, k), Tensor(name).data), grad |-> None,
   grad_fn |-> GradFn(name, "PowBackward0"), next |-> name,
   saved |-> Tensor(name).data, arg |-> k,
   requires_grad |-> Tensor(name).requires_grad, nbackward |-> 0]

\* (mutant) t.sum(): the entries are added and not divided by their number
sum(name) ==
  [data |-> <<Sum2(Tensor(name).data)>>, grad |-> None,
   grad_fn |-> GradFn(name, "SumBackward0"), next |-> name,
   saved |-> << >>, arg |-> 1,
   requires_grad |-> Tensor(name).requires_grad, nbackward |-> 0]

\* t.mean() for the tensor t bound to name: the sum of the entries over
\* their number; MeanBackward0 keeps the number of entries
mean(name) ==
  [data |-> <<Sum2(Tensor(name).data)
               \div (Len(Tensor(name).data) * Len(Tensor(name).data[1]))>>,
   grad |-> None,
   grad_fn |-> GradFn(name, "MeanBackward0"), next |-> name,
   saved |-> << >>, arg |-> Len(Tensor(name).data) * Len(Tensor(name).data[1]),
   requires_grad |-> Tensor(name).requires_grad, nbackward |-> 0]

\* t.grad_fn applied to the gradient g of t: the gradient of the input of
\* the operation that made t.  A gradient is exact: the entries num over
\* the common denominator den.
Backward1(t, g) ==
  CASE t.grad_fn = "PowBackward0" ->
         [num |-> [i \in 1..2 |-> [j \in 1..2 |->
                     g.num[i][j] * t.arg * Pow(t.saved[i][j], t.arg - 1)]],
          den |-> g.den]
    [] t.grad_fn = "MeanBackward0" ->
         [num |-> [i \in 1..2 |-> [j \in 1..2 |-> g.num]], den |-> g.den * t.arg]
    [] t.grad_fn = "SumBackward0" ->
         [num |-> [i \in 1..2 |-> [j \in 1..2 |-> g.num]], den |-> g.den]

\* the backward pass from the tensor bound to name, whose gradient is g,
\* along grad_fn and next to the leaf: the leaf and the gradient it receives
RECURSIVE BackwardTo(_, _)
BackwardTo(name, g) ==
  IF Tensor(name).grad_fn = ""
  THEN [leaf |-> name, grad |-> g]
  ELSE BackwardTo(Tensor(name).next, Backward1(Tensor(name), g))

\* the tensors an operation made on the way from the tensor bound to name
\* to the leaf
RECURSIVE GraphOf(_)
GraphOf(name) ==
  IF Tensor(name).grad_fn = "" THEN {}
  ELSE {name} \cup GraphOf(Tensor(name).next)

\* a backward pass needs the input PowBackward0 saved: it is gone once a
\* pass has freed the graph
CanBackward(name) ==
  \A n \in GraphOf(name) :
     Tensor(n).grad_fn = "PowBackward0" => Tensor(n).saved # << >>

\* the tensor bound to name after a backward pass from the tensor bound to
\* root (retain_graph is not given): the graph no longer holds its saved input
Freed(name, root) ==
  IF name \in GraphOf(root) THEN [Tensor(name) EXCEPT !.saved = << >>]
  ELSE Tensor(name)

\* leaf.grad after a backward pass that delivers g: gradients accumulate
AccumulateGrad(grad, g) ==
  IF grad = None THEN Some(g)
  ELSE Some([num |-> [i \in 1..2 |-> [j \in 1..2 |->
                        Val(grad).num[i][j] * g.den + g.num[i][j] * Val(grad).den]],
             den |-> Val(grad).den * g.den])

\* x = torch.randn(2,2, requires_grad=True)
XRandn ==
  /\ Stmt = "x_randn"
  /\ \E m \in XInputs :
       x' = [data |-> m, grad |-> None, grad_fn |-> "", next |-> "", saved |-> << >>,
             arg |-> 0, requires_grad |-> TRUE, nbackward |-> 0]
  /\ Advance
  /\ UNCHANGED <<fnvars, part2, raised, trainloader, iterator, images, labels, model, criterion,
                 optimizer, logits, output, loss, y, z, img, logps, ps, e,
                 running_loss, printed, calls, nsteps, seen>>

\* y = x**2
YPow ==
  /\ Stmt = "y_pow"
  /\ x.data # << >>
  /\ y' = pow("x", 2)
  /\ Advance
  /\ UNCHANGED <<fnvars, part2, raised, trainloader, iterator, images, labels, model, criterion,
                 optimizer, logits, output, loss, x, z, img, logps, ps, e,
                 running_loss, printed, calls, nsteps, seen>>

\* z = y.mean()
ZMean ==
  /\ Stmt = "z_mean"
  /\ y.data # << >>
  /\ z' = mean("y")
  /\ Advance
  /\ UNCHANGED <<fnvars, part2, raised, trainloader, iterator, images, labels, model, criterion,
                 optimizer, logits, output, loss, x, y, img, logps, ps, e,
                 running_loss, printed, calls, nsteps, seen>>

\* z.backward(): the gradient 1 of z goes back through z.grad_fn and
\* y.grad_fn to the leaf x and is added to x.grad; the graph is freed
ZBackward ==
  /\ Stmt = "z_backward"
  /\ z.requires_grad /\ z.grad_fn # ""
  /\ CanBackward("z")
  /\ LET r == BackwardTo("z", [num |-> 1, den |-> 1])
     IN /\ r.leaf = "x"
        /\ x' = [x EXCEPT !.grad = AccumulateGrad(@, r.grad), !.nbackward = @ + 1]
  /\ y' = Freed("y", "z")
  /\ z' = Freed("z", "z")
  /\ Advance
  /\ UNCHANGED <<fnvars, part2, raised, trainloader, iterator, images, labels, model, criterion,
                 optimizer, logits, output, loss, img, logps, ps, e,
                 running_loss, printed, calls, nsteps, seen>>

\* for e in range(epochs): the next epoch, or the end of the cell
ForEpoch ==
  /\ Stmt = "for_e"
  /\ IF e + 1 < epochs
     THEN e' = e + 1 /\ Advance
     ELSE e' = e /\ cell' = cell + 1 /\ ip' = 1
  /\ UNCHANGED <<fnvars, part2, raised, trainloader, iterator, images, labels, model, criterion,
                 optimizer, logits, output, loss, x, y, z, img, logps, ps,
                 running_loss, printed, calls, nsteps, seen>>

\* running_loss = 0
RunningLossZero ==
  /\ Stmt = "running_loss_0"
  /\ running_loss' = 0
  /\ Advance
  /\ UNCHANGED <<fnvars, part2, raised, trainloader, iterator, images, labels, model, criterion,
                 optimizer, logits, output, loss, x, y, z, img, logps, ps, e,
                 printed, calls, nsteps, seen>>

\* for images, labels in trainloader: the loop asks the loader for an
\* iterator once per epoch
Iter ==
  /\ Stmt = "iter"
  /\ iterator' = NewIter
  /\ nsteps' = 0
  /\ seen' = [p \in Probes |-> 0]
  /\ Advance
  /\ UNCHANGED <<fnvars, part2, raised, trainloader, images, labels, model, criterion, optimizer,
                 logits, output, loss, x, y, z, img, logps, ps, e, running_loss,
                 printed, calls>>

\* for images, labels in trainloader: the next batch, or the else clause
\* when the iterator is exhausted
ForBatch ==
  /\ Stmt = "for_batch"
  /\ IF Exhausted(iterator)
     THEN /\ Goto("else_print")
          /\ UNCHANGED <<fnvars, part2, raised, iterator, images, labels, calls, seen>>
     ELSE /\ \E b \in NextBatches(iterator) :
               /\ images' = [shape |-> ImageShape(b.n), probes |-> b.probes]
               /\ labels' = [shape |-> <<b.n>>, probes |-> b.probes]
               /\ iterator' = b.rest
               /\ seen' = [p \in Probes |->
                             IF p \in b.probes THEN seen[p] + 1 ELSE seen[p]]
          /\ calls' = << >>
          /\ Advance
  /\ UNCHANGED <<fnvars, part2, raised, trainloader, model, criterion, optimizer, logits, output, loss,
                 x, y, z, img, logps, ps, e, running_loss, printed, nsteps>>

\* running_loss += loss.item(), and back to the head of the inner loop
RunningLossAdd ==
  /\ Stmt = "running_loss_add"
  /\ running_loss' = running_loss + loss.value
  /\ Goto("for_batch")
  /\ UNCHANGED <<fnvars, part2, raised, trainloader, iterator, images, labels, model, criterion,
                 optimizer, logits, output, loss, x, y, z, img, logps, ps, e,
                 printed, calls, nsteps, seen>>

\* else: print(f"Training loss: {running_loss/len(trainloader)}"), and back
\* to the head of the outer loop
ElsePrint ==
  /\ Stmt = "else_print"
  /\ printed' = printed + 1
  /\ Goto("for_e")
  /\ UNCHANGED <<fnvars, part2, raised, trainloader, iterator, images, labels, model, criterion,
                 optimizer, logits, output, loss, x, y, z, img, logps, ps, e,
                 running_loss, calls, nsteps, seen>>

\* img = images[0].view(1, 784): the first image of the batch, which is a
\* tracked sample when the loader has put one first
ImgView ==
  /\ Stmt = "img_view"
  /\ Len(images.shape) >= 1 /\ images.shape[1] >= 1
  /\ Numel(Tail(images.shape)) = 784
  /\ \E first \in {{}} \cup {{p} : p \in images.probes} :
       img' = [shape |-> <<1, 784>>, probes |-> first]
  /\ Advance
  /\ UNCHANGED <<fnvars, part2, raised, trainloader, iterator, images, labels, model, criterion,
                 optimizer, logits, output, loss, x, y, z, logps, ps, e,
                 running_loss, printed, calls, nsteps, seen>>

\* (mutant) the result is recorded in the graph as outside no_grad
GradKept(res) == res

\* a result computed under torch.no_grad(): no graph, requires_grad False
NoGrad(res) == [res EXCEPT !.graph = 0, !.requires_grad = FALSE]

\* with torch.no_grad(): logps = model(img)
NoGradForward ==
  /\ Stmt = "no_grad_forward"
  /\ CanForward(img)
  /\ logps' = NoGrad(Forwarded(img))
  /\ calls' = Append(calls, "forward")
  /\ Advance
  /\ UNCHANGED <<fnvars, part2, raised, trainloader, iterator, images, labels, model, criterion,
                 optimizer, logits, output, loss, x, y, z, img, ps, e,
                 running_loss, printed, nsteps, seen>>

\* ps = torch.exp(logps)
Exp ==
  /\ Stmt = "exp"
  /\ ps' = logps
  /\ Advance
  /\ UNCHANGED <<fnvars, part2, raised, trainloader, iterator, images, labels, model, criterion,
                 optimizer, logits, output, loss, x, y, z, img, logps, e,
                 running_loss, printed, calls, nsteps, seen>>

\* (mutant) the loop body in a try block whose handler goes on with the
\* next batch
CaughtContinue(c) ==
  IF \E i \in 1..Len(Notebook[c]) : Notebook[c][i] = "for_batch"
  THEN [cell |-> c, ip |-> IndexOf(Notebook[c], "for_batch")]
  ELSE [cell |-> Len(Notebook) + 1, ip |-> 1]

\* no cell has a try statement: an exception leaves the loops and the cell,
\* and the run of the notebook stops
Uncaught(c) == [cell |-> Len(Notebook) + 1, ip |-> 1]

\* the statement about to run raises (the loader fails to fetch a batch, a
\* shape mismatch, no memory left, an interrupt): it has no effect, and the
\* exception propagates
Raise ==
  /\ ~Done
  /\ raised' = [cell |-> cell, stmt |-> Stmt]
  /\ cell' = Uncaught(cell).cell /\ ip' = Uncaught(cell).ip
  /\ UNCHANGED <<fnvars, part2, trainloader, iterator, images, labels, model, criterion,
                 optimizer, logits, output, loss, x, y, z, img, logps, ps, e,
                 running_loss, printed, calls, nsteps, seen>>

Next ==
  \/ Trainloader \/ NewModel \/ NewCriterion \/ NewOptimizer
  \/ FirstBatch \/ Flatten \/ Resize
  \/ ForwardLogits \/ Forward \/ CriterionLogits \/ Criterion
  \/ Backward \/ ZeroGrad \/ Step \/ PrintStmt \/ Setup
  \/ XRandn \/ YPow \/ ZMean \/ ZBackward
  \/ ForEpoch \/ RunningLossZero \/ Iter \/ ForBatch \/ RunningLossAdd \/ ElsePrint
  \/ ImgView \/ NoGradForward \/ Exp
  \/ Raise

Spec == Init /\ [][Next]_vars

(***************************************************************************)
(* The functions on scores: softmax of the Part 2 notebook and the losses  *)
(* of Part 3.  Scores and log-probabilities are fixed-point in tenths,     *)
(* exponentials in units of 1/10000; a network has the two classes 0 and 1 *)
(* here instead of ten.                                                    *)
(***************************************************************************)
MaxRows == 2
Classes == {0, 1}
ScoreValues == {-10, 0, 10}

\* exp(k/10) in units of 1/10000, for k = -10 .. 25
ExpTable ==
  <<3679, 4066, 4493, 4966, 5488, 6065, 6703, 7408, 8187, 9048, 10000, 11052,
    12214, 13499, 14918, 16487, 18221, 20138, 22255, 24596, 27183, 30042, 33201,
    36693, 40552, 44817, 49530, 54739, 60496, 66859, 73891, 81662, 90250, 99742,
    110232, 121825>>
\* torch.exp of a score in tenths
ExpFix(v) == ExpTable[v + 11]
\* torch.log of a number in units of 1/10000, in tenths, rounded down
LnFix(n) == CHOOSE k \in -10..25 :
              /\ ExpFix(k) <= n
              /\ k < 25 => n < ExpFix(k + 1)
\* 1e-8 in units of 1/10000
Eps == 10000 \div 100000000

RECURSIVE SumSeq(_)
SumSeq(s) == IF s = << >> THEN 0 ELSE s[1] + SumSeq(Tail(s))
MapM(f(_), m) == [i \in 1..Len(m) |-> [j \in 1..Len(m[i]) |-> f(m[i][j])]]
\* torch.sum(m): over every entry;  m.sum(dim=1): one sum per row
SumAll(m) == SumSeq([i \in 1..Len(m) |-> SumSeq(m[i])])
SumDim1(m) == [i \in 1..Len(m) |-> SumSeq(m[i])]

\* def softmax(x): return torch.div(torch.exp(x), torch.sum(torch.exp(x)) + 1e-8)
\* The quotient is kept as numerators over one denominator.
softmax(xs) == [num |-> MapM(ExpFix, xs), den |-> SumAll(MapM(ExpFix, xs)) + Eps]

\* nn.LogSoftmax(dim=1): each score minus the log of its row's sum of exponentials
LogSoftmax(xs) ==
  [i \in 1..Len(xs) |->
     [j \in 1..Len(xs[i]) |-> xs[i][j] - LnFix(SumSeq(MapM(ExpFix, xs)[i]))]]

\* nn.NLLLoss(): the mean over the rows of minus the entry of the row's label
NLLLoss(lp, ys) == SumSeq([i \in 1..Len(lp) |-> -lp[i][ys[i] + 1]]) \div Len(lp)

\* nn.CrossEntropyLoss(): the mean over the rows of
\* log(sum_j exp(score_j)) - score_label
CrossEntropyLoss(xs, ys) ==
  SumSeq([i \in 1..Len(xs) |->
            LnFix(SumSeq([j \in 1..Len(xs[i]) |-> ExpFix(xs[i][j])])) - xs[i][ys[i] + 1]])
    \div Len(xs)

ScoreMatrices ==
  UNION { [1..r -> [1..Cardinality(Classes) -> ScoreValues]] : r \in 1..MaxRows }

\* the sigmoid of a score in tenths, in tenths: exp(v) / (1 + exp(v))
SigFix(v) == (10 * ExpFix(v)) \div (10000 + ExpFix(v))

\* nn.Linear: x W^T + b, with weight[o][i] the weight from input i to output o
LinearFn(xs, layer) ==
  [r \in 1..Len(xs) |->
     [o \in 1..Len(layer.weight) |->
        SumSeq([i \in 1..Len(xs[r]) |-> xs[r][i] * layer.weight[o][i]])
          + layer.bias[o]]]

\* softmax over dim=1: every row over its own sum, as numerators and the
\* denominator of the row
SoftmaxDim1(xs) ==
  [r \in 1..Len(xs) |->
     [num |-> [j \in 1..Len(xs[r]) |-> ExpFix(xs[r][j])],
      den |-> SumSeq([j \in 1..Len(xs[r]) |-> ExpFix(xs[r][j])])]]

\* (mutant) the sigmoid after the output layer
ForwardOrderSigmoidLate == <<"hidden", "output", "sigmoid", "softmax">>

\* Network.forward of the module version, lines 964-967: the attributes in
\* the order the input goes through them
ForwardOrder == <<"hidden", "sigmoid", "output", "softmax">>

\* self.<name>(x) for the modules __init__ creates (lines 954-960)
ApplyModule(name, net, xs) ==
  CASE name = "hidden"  -> LinearFn(xs, net.hidden)
    [] name = "output"  -> LinearFn(xs, net.output)
    [] name = "sigmoid" -> MapM(SigFix, xs)
    [] name = "softmax" -> SoftmaxDim1(xs)

RECURSIVE ApplyAll(_, _, _)
ApplyAll(names, net, xs) ==
  IF names = << >> THEN xs
  ELSE ApplyAll(Tail(names), net, ApplyModule(names[1], net, xs))

\* forward of the module version
NetworkForward(net, xs) == ApplyAll(ForwardOrder, net, xs)

\* forward of the functional version, lines 1073-1075:
\* x = F.sigmoid(self.hidden(x)); x = F.softmax(self.output(x), dim=1)
NetworkForwardF(net, xs) ==
  SoftmaxDim1(LinearFn(MapM(SigFix, LinearFn(xs, net.hidden)), net.output))

\* the weights of the networks and the inputs the forward methods are applied
\* to: two inputs, two hidden units, two outputs; inputs and biases in tenths
NetParams ==
  { [hidden |-> [weight |-> <<<<1, 0>>, <<1, 1>>>>, bias |-> <<0, -5>>],
     output |-> [weight |-> <<<<1, 0>>, <<1, 1>>>>, bias |-> <<0, 0>>]],
    [hidden |-> [weight |-> <<<<0, 1>>, <<1, 0>>>>, bias |-> <<0, 0>>],
     output |-> [weight |-> <<<<1, 1>>, <<0, 1>>>>, bias |-> <<-5, 0>>]] }
NetInputs == { <<<<0, 5>>>>, <<<<5, 5>>, <<5, 0>>>> }

InitFn ==
  /\ NotebookInit
  /\ fn_pc = "forward"
  /\ \E n \in NetParams, xs \in NetInputs :
       fwd = [net |-> n, x |-> xs, module |-> << >>, functional |-> << >>]
  /\ out \in ScoreMatrices
  /\ targets \in [1..Len(out) -> Classes]
  /\ probabilities = [num |-> << >>, den |-> 0] /\ ce = None /\ nll = None
  /\ part2 = Part2Fresh

\* model.forward(x) of both Network classes, on the same weights and input
NetworkCell ==
  /\ fn_pc = "forward"
  /\ fwd' = [fwd EXCEPT !.module = NetworkForward(fwd.net, fwd.x),
                        !.functional = NetworkForwardF(fwd.net, fwd.x)]
  /\ fn_pc' = "softmax"
  /\ UNCHANGED <<nbvars, part2, out, targets, probabilities, ce, nll>>

\* probabilities = softmax(out)
SoftmaxCell ==
  /\ fn_pc = "softmax"
  /\ probabilities' = softmax(out)
  /\ fn_pc' = "cross_entropy"
  /\ UNCHANGED <<nbvars, part2, fwd, out, targets, ce, nll>>

\* logits = model(images); loss = nn.CrossEntropyLoss()(logits, labels)
CrossEntropyCell ==
  /\ fn_pc = "cross_entropy"
  /\ ce' = Some(CrossEntropyLoss(out, targets))
  /\ fn_pc' = "nll"
  /\ UNCHANGED <<nbvars, part2, fwd, out, targets, probabilities, nll>>

\* the same network followed by nn.LogSoftmax(dim=1); loss = nn.NLLLoss()(.., labels)
LogSoftmaxNLLCell ==
  /\ fn_pc = "nll"
  /\ nll' = Some(NLLLoss(LogSoftmax(out), targets))
  /\ fn_pc' = "done"
  /\ UNCHANGED <<nbvars, part2, fwd, out, targets, probabilities, ce>>

NextFn == NetworkCell \/ SoftmaxCell \/ CrossEntropyCell \/ LogSoftmaxNLLCell

SpecFn == InitFn /\ [][NextFn]_vars

(***************************************************************************)
(* The Part 2 notebook as a program (specification SpecP2): the first      *)
(* batch, the hand-built network of lines 827-845, softmax, the Network    *)
(* classes and the cells that read model.fc1.  An image is 1 x 2 x 2 here  *)
(* instead of 1 x 28 x 28 and a batch has 2..MaxBatch images instead of 64 *)
(* (the notebook reads images[1], so a batch has at least two).  Of the    *)
(* weights and the layer outputs only the shapes are kept.                 *)
(***************************************************************************)
MaxBatch == 3
ImgShape == <<1, 2, 2>>
LabelValues == {0, 9}

Stmt2 == IF part2.pc > Len(Part2) THEN "done" ELSE Part2[part2.pc]
Running2(s) == part2.raised = "" /\ Stmt2 = s
\* an exception in a cell: the run of the notebook stops
Raised2 == [part2 EXCEPT !.raised = Stmt2, !.pc = Len(Part2) + 1]
\* reading a name that is not bound raises NameError
Bound(names) == names \subseteq part2.bound

\* the batches dataiter.next() may deliver: B images with at most one pixel
\* set, and B labels
OneHot(n, k) == [i \in 1..n |-> IF i = k THEN 1 ELSE 0]
Batches ==
  UNION { { [images |-> [shape |-> <<B>> \o ImgShape,
                         storage |-> OneHot(B * Numel(ImgShape), k)],
             labels |-> [shape |-> <<B>>, storage |-> l]] :
              k \in 0..(B * Numel(ImgShape)), l \in [1..B -> LabelValues] } :
          B \in 2..MaxBatch }

\* t[idx] of a contiguous tensor, indices from 0: the row-major offset
RECURSIVE Offset(_, _)
Offset(shape, idx) ==
  IF shape = << >> THEN 0
  ELSE idx[1] * Numel(Tail(shape)) + Offset(Tail(shape), Tail(idx))
At(t, idx) == t.storage[Offset(t.shape, idx) + 1]

\* t.view(n0, -1): the same storage under a new shape
ViewData(t, n0) == [shape |-> View(t.shape, n0), storage |-> t.storage]

\* torch.mm(a, b) and broadcasting of an elementwise operation, on shapes
CanMm(a, b) == Len(a) = 2 /\ Len(b) = 2 /\ a[2] = b[1]
MmShape(a, b) == <<a[1], b[2]>>
Max(a, b) == IF a < b THEN b ELSE a
Pad(shape, n) ==
  [i \in 1..n |-> IF i <= n - Len(shape) THEN 1 ELSE shape[i - (n - Len(shape))]]
Broadcastable(a, b) ==
  LET n == Max(Len(a), Len(b))
  IN \A i \in 1..n :
       Pad(a, n)[i] = Pad(b, n)[i] \/ Pad(a, n)[i] = 1 \/ Pad(b, n)[i] = 1
BroadcastShape(a, b) ==
  LET n == Max(Len(a), Len(b))
  IN [i \in 1..n |-> IF Pad(a, n)[i] = 1 THEN Pad(b, n)[i] ELSE Pad(a, n)[i]]

\* (mutant) a second weight matrix that does not fit the hidden layer
HandBuiltShapesMismatch(k) ==
  [w1 |-> <<k, 256>>, b1 |-> <<256>>, w2 |-> <<128, 10>>, b2 |-> <<10>>]

\* w1 = torch.randn((k, 256)); b1 = torch.zeros(256);
\* w2 = torch.randn((256, 10)); b2 = torch.zeros(10)
HandBuiltShapes(k) ==
  [w1 |-> <<k, 256>>, b1 |-> <<256>>, w2 |-> <<256, 10>>, b2 |-> <<10>>]

\* the shape of softmax(x): torch.sum(torch.exp(x)) + 1e-8 has no dimension,
\* and the quotient broadcasts it over torch.exp(x)
SoftmaxShape(shape) == BroadcastShape(shape, BroadcastShape(<< >>, << >>))

\* the attributes __init__ sets on an instance of each Network class
NetworkAttrs ==
  [module     |-> {"hidden", "output", "sigmoid", "softmax"},
   functional |-> {"hidden", "output"}]

\* dataiter = iter(trainloader); images, labels = dataiter.next()
FirstBatch2 ==
  /\ Running2("first_batch")
  /\ \E b \in Batches :
       part2' = [part2 EXCEPT !.images = b.images, !.labels = b.labels,
                              !.bound = @ \cup {"images", "labels"}, !.pc = @ + 1]
  /\ UNCHANGED <<nbvars, fnvars>>

\* inputs = images.view(images.shape[0], -1)
InputsView ==
  /\ Running2("inputs_view")
  /\ part2' = IF /\ Bound({"images"})
                 /\ Len(part2.images.shape) >= 1 /\ part2.images.shape[1] >= 1
              THEN [part2 EXCEPT
                      !.inputs = ViewData(part2.images, part2.images.shape[1]),
                      !.bound = @ \cup {"inputs"}, !.pc = @ + 1]
              ELSE Raised2
  /\ UNCHANGED <<nbvars, fnvars>>

\* m, k = inputs.shape, and the four random or zero tensors
Weights ==
  /\ Running2("weights")
  /\ part2' = IF Bound({"inputs"}) /\ Len(part2.inputs.shape) = 2
              THEN LET t == HandBuiltShapes(part2.inputs.shape[2])
                   IN [part2 EXCEPT !.w1 = t.w1, !.b1 = t.b1, !.w2 = t.w2,
                                    !.b2 = t.b2,
                                    !.bound = @ \cup {"w1", "b1", "w2", "b2"},
                                    !.pc = @ + 1]
              ELSE Raised2
  /\ UNCHANGED <<nbvars, fnvars>>

\* layer1 = sigmoid(torch.mm(inputs, w1) + b1)
Layer1 ==
  /\ Running2("layer1")
  /\ part2' = IF /\ Bound({"inputs", "w1", "b1"})
                 /\ CanMm(part2.inputs.shape, part2.w1)
                 /\ Broadcastable(MmShape(part2.inputs.shape, part2.w1), part2.b1)
              THEN [part2 EXCEPT
                      !.layer1 = BroadcastShape(MmShape(part2.inputs.shape, part2.w1),
                                                part2.b1),
                      !.bound = @ \cup {"layer1"}, !.pc = @ + 1]
              ELSE Raised2
  /\ UNCHANGED <<nbvars, fnvars>>

\* out = torch.mm(layer1, w2) + b2
Out ==
  /\ Running2("out")
  /\ part2' = IF /\ Bound({"layer1", "w2", "b2"})
                 /\ CanMm(part2.layer1, part2.w2)
                 /\ Broadcastable(MmShape(part2.layer1, part2.w2), part2.b2)
              THEN [part2 EXCEPT
                      !.out = BroadcastShape(MmShape(part2.layer1, part2.w2), part2.b2),
                      !.bound = @ \cup {"out"}, !.pc = @ + 1]
              ELSE Raised2
  /\ UNCHANGED <<nbvars, fnvars>>

\* probabilities = softmax(out)
SoftmaxShapes ==
  /\ Running2("softmax")
  /\ part2' = IF Bound({"out"})
              THEN [part2 EXCEPT !.probabilities = SoftmaxShape(part2.out),
                                 !.bound = @ \cup {"probabilities"}, !.pc = @ + 1]
              ELSE Raised2
  /\ UNCHANGED <<nbvars, fnvars>>

\* print(probabilities.shape); print(probabilities.sum(dim=1)): the sum
\* over dim=1 raises IndexError on a tensor of fewer than two dimensions
PrintProbabilities ==
  /\ part2.raised = "" /\ Stmt2 \in {"print_shape", "print_sum"}
  /\ part2' = IF /\ Bound({"probabilities"})
                 /\ (Stmt2 = "print_sum" => Len(part2.probabilities) >= 2)
              THEN [part2 EXCEPT !.pc = @ + 1]
              ELSE Raised2
  /\ UNCHANGED <<nbvars, fnvars>>

\* class Network(nn.Module): the name Network is bound to the class of the
\* cell, the module version (949-969) or the functional one (1063-1077)
ClassNetwork ==
  /\ part2.raised = "" /\ Stmt2 \in {"class_network", "class_network_f"}
  /\ part2' = [part2 EXCEPT
                 !.Network = IF Stmt2 = "class_network" THEN "module" ELSE "functional",
                 !.bound = @ \cup {"Network"}, !.pc = @ + 1]
  /\ UNCHANGED <<nbvars, fnvars>>

\* model = Network()
ModelNetwork ==
  /\ Running2("model_network")
  /\ part2' = IF Bound({"Network"})
              THEN [part2 EXCEPT
                      !.model = [class |-> part2.Network,
                                 attrs |-> NetworkAttrs[part2.Network]],
                      !.bound = @ \cup {"model"}, !.pc = @ + 1]
              ELSE Raised2
  /\ UNCHANGED <<nbvars, fnvars>>

\* "## Your solution here": the cell holds a comment only
YourSolution ==
  /\ Running2("your_solution")
  /\ part2' = [part2 EXCEPT !.pc = @ + 1]
  /\ UNCHANGED <<nbvars, fnvars>>

\* print(model.fc1.weight), model.fc1.bias.data.fill_(0),
\* model.fc1.weight.data.normal_(std=0.01): an attribute the model does not
\* have raises AttributeError
ReadFc1 ==
  /\ part2.raised = "" /\ Stmt2 \in {"print_fc1", "fill_bias", "normal_weight"}
  /\ part2' = IF Bound({"model"}) /\ "fc1" \in part2.model.attrs
              THEN [part2 EXCEPT !.pc = @ + 1]
              ELSE Raised2
  /\ UNCHANGED <<nbvars, fnvars>>

NextP2 ==
  \/ FirstBatch2 \/ InputsView \/ Weights \/ Layer1 \/ Out \/ SoftmaxShapes
  \/ PrintProbabilities
  \/ ClassNetwork \/ ModelNetwork \/ YourSolution \/ ReadFc1

SpecP2 == Init /\ [][NextP2]_vars

(***************************************************************************)
(*                               Properties                                *)
(***************************************************************************)

\* C1: in the training loop every batch goes through optimizer.zero_grad(),
\* model(images), criterion(output, labels), loss.backward() and
\* optimizer.step() in this order: at every point of the loop body the calls
\* made on the batch are a prefix of that order, and all five are made when
\* the pass is over.
C1_FixedOrder ==
  InBody =>
    /\ Len(calls) <= 5
    /\ calls = SubSeq(<<"zero_grad", "forward", "criterion", "backward", "step">>,
                      1, Len(calls))
    /\ Stmt = "running_loss_add" => Len(calls) = 5

\* the pass of the last batch of the last epoch is over
C1_Witness ==
  /\ InLoop /\ Stmt = "running_loss_add"
  /\ e = epochs - 1 /\ iterator.index = LoaderLen
  /\ calls = <<"zero_grad", "forward", "criterion", "backward", "step">>

\* C2: whenever optimizer.step() is about to run, the gradient of every
\* parameter is the gradient of the current loss alone: nothing is left of an
\* earlier backward pass.
C2_GradOfCurrentBatch ==
  Stmt = "step" =>
    /\ loss.graph = model.id /\ optimizer.params = model.id
    /\ \A p \in Params : model.grad[p] = Some(loss.g[p])

\* the step of the single-step cell: the model has had two backward passes,
\* the first before the optimizer existed
C2_Witness ==
  /\ Stmt = "step" /\ Notebook[cell] = Cell15
  /\ model.nbackward = 2
  /\ loss.g["weight"] = 1 /\ loss.g["bias"] = -1

\* C3 as stated: softmax(out) is a probability distribution per row: every
\* entry is between 0 and 1 and every row sums to 1.
C3_RowsSumToOne ==
  fn_pc \in {"cross_entropy", "nll", "done"} =>
    \A i \in 1..Len(out) :
      /\ \A j \in 1..Len(out[i]) :
           0 <= probabilities.num[i][j] /\ probabilities.num[i][j] <= probabilities.den
      /\ SumDim1(probabilities.num)[i] = probabilities.den

\* C5 as stated: every batch has exactly 64 images and 64 labels.
C5_EveryBatchFull ==
  images.shape # << >> =>
    images.shape[1] = batch_size /\ labels.shape = <<batch_size>>

\* C5 amended: a batch has as many labels as images and at most 64 of them;
\* in the loop every batch but the last of an epoch has 64 and the last has
\* what is left of the training set; the batch the single-step cell resizes
\* is the first of its iterator and has 64.
C5_BatchSizes ==
  /\ images.shape # << >> =>
       /\ labels.shape = <<images.shape[1]>>
       /\ 1 <= images.shape[1] /\ images.shape[1] <= batch_size
  /\ InBody =>
       images.shape[1] = IF iterator.index < LoaderLen
                         THEN batch_size
                         ELSE TrainsetSize - batch_size * (LoaderLen - 1)
  /\ Stmt = "resize" => images.shape = ImageShape(64)

\* the last batch of an epoch is being processed and is not full
C5_Witness ==
  /\ InBody /\ Stmt = "forward"
  /\ iterator.index = LoaderLen /\ iterator.remaining = 0
  /\ images.shape[1] < batch_size

\* C6: an epoch is one pass over the training set: no sample is in two
\* batches of an epoch, and when the inner loop is over every sample has been
\* in one batch and optimizer.step() has run len(trainloader) times.
C6_EpochIsOnePass ==
  /\ \A p \in Probes : seen[p] <= 1
  /\ (InLoop /\ Stmt = "else_print") =>
       /\ \A p \in Probes : seen[p] = 1
       /\ nsteps = LoaderLen
       /\ iterator.remaining = 0

\* the last epoch is over
C6_Witness ==
  /\ InLoop /\ Stmt = "else_print" /\ e = epochs - 1
  /\ nsteps >= 2
  /\ \A p \in Probes : seen[p] = 1

\* C7 as stated: in the exercise cell the model ends in log-softmax, the
\* criterion is the negative log likelihood loss, and log-softmax is applied
\* once between the last linear layer and the loss.
C7_LogSoftmaxOnce ==
  (~Done /\ Notebook[cell] = Cell4 /\ Stmt = "print_loss") =>
    /\ model.layers[Len(model.layers)].op = "LogSoftmax"
    /\ criterion = "NLLLoss"
    /\ LogSoftmaxCount(model.layers, criterion) = 1

\* C9: optimizer.step(), when it returns, has replaced every weight w by
\* w - lr * w.grad, with lr = 0.01 in the single-step cell and 0.003 in the
\* loop, so a weight whose gradient is 0 keeps its value.
C9_GradientDescentStep ==
  [][(Stmt = "step" /\ raised'.stmt = "") =>
       \A p \in Params :
         /\ model.grad[p] # None
         /\ model'.weight[p] =
              model.weight[p]
                - (IF Notebook[cell] = Cell15 THEN lr_c13 ELSE lr_c20) * Val(model.grad[p])
         /\ Val(model.grad[p]) = 0 => model'.weight[p] = model.weight[p]]_vars

\* after the step of the single-step cell: one weight had gradient 0 and kept
\* its value, the other had gradient 1 and lost 0.01
C9_Witness ==
  /\ ~Done /\ Notebook[cell] = Cell15 /\ Stmt = "print_weights"
  /\ model.grad["weight"] = Some(0) /\ model.weight["weight"] = 0
  /\ model.grad["bias"] = Some(1) /\ model.weight["bias"] = -10

\* C10: x.grad and the gradient of every parameter of the model are None as
\* long as no backward pass has reached them, and a backward pass that
\* reaches them leaves a gradient.
C10_GradNoneUntilBackward ==
  /\ [](/\ x.nbackward = 0 => x.grad = None
        /\ model.nbackward = 0 => \A p \in Params : model.grad[p] = None)
  /\ [][/\ x'.nbackward > x.nbackward => x'.grad # None
        /\ (model'.id = model.id /\ model'.nbackward > model.nbackward) =>
             \A p \in Params : model'.grad[p] # None]_vars

\* after the backward pass of the "Loss and Autograd together" cells: x and
\* the model have each had their first backward pass
C10_Witness ==
  /\ ~Done /\ Notebook[cell] = Cell12 /\ ip = 3
  /\ x.nbackward = 1 /\ x.grad # None
  /\ model.nbackward = 1 /\ model.grad["weight"] # None

\* C11: for the 2x2 tensor x with y = x**2 and z = y.mean(), one call of
\* z.backward() leaves x.grad equal to x/2, entry by entry.
C11_GradIsHalfX ==
  x.nbackward = 1 =>
    /\ x.grad # None
    /\ \A i \in 1..2 : \A j \in 1..2 :
         2 * Val(x.grad).num[i][j] = Val(x.grad).den * x.data[i][j]

\* z.backward() has run once on an x with positive, negative and zero entries
C11_Witness ==
  /\ x.nbackward = 1
  /\ y.grad_fn = "PowBackward0" /\ y.next = "x" /\ y.data = <<<<4, 0>>, <<4, 16>>>>
  /\ z.grad_fn = "MeanBackward0" /\ z.next = "y" /\ z.data = <<6>>
  /\ x.data = <<<<-2, 0>>, <<2, -4>>>>
  /\ x.grad = Some([num |-> <<<<-4, 0>>, <<4, -8>>>>, den |-> 4])

\* C12: the loop catches nothing.  A statement of a batch iteration that
\* raises (the fetch of the batch by the for statement, or a statement of the
\* loop body) ends the run: nothing runs after it (no later step of the
\* batch, no later batch or epoch), the interrupted epoch prints no "Training
\* loss" line, and the failure itself changes no parameter, so the updates of
\* the batches completed before remain applied.
C12_FailurePropagates ==
  /\ [](raised.stmt # "" =>
          /\ Done
          /\ (Notebook[raised.cell] = Cell20
                /\ raised.stmt \in {"running_loss_0", "iter", "for_batch", "flatten",
                                    "zero_grad", "forward", "criterion", "backward",
                                    "step", "running_loss_add", "else_print"}) =>
                printed = e
          /\ (Notebook[raised.cell] = Cell20
                /\ raised.stmt \in {"for_batch", "flatten", "zero_grad", "forward",
                                    "criterion", "backward", "step",
                                    "running_loss_add"}) =>
                /\ \A i \in 1..Len(calls) : calls[i] # raised.stmt
                /\ (\E i \in 1..Len(TrainingPass) : TrainingPass[i] = raised.stmt) =>
                     calls = SubSeq(TrainingPass, 1,
                                    IndexOf(TrainingPass, raised.stmt) - 1)
                /\ nsteps = (IF raised.stmt \in {"for_batch", "running_loss_add"}
                             THEN iterator.index ELSE iterator.index - 1))
  /\ [][/\ raised.stmt = ""
        /\ raised'.stmt # "" =>
             /\ model' = model /\ printed' = printed /\ e' = e
             /\ calls' = calls /\ nsteps' = nsteps /\ iterator' = iterator]_vars

\* the fetch of the second batch of the third epoch failed: two lines were
\* printed, the step of the first batch was made and the weights are the
\* updated ones
C12_Witness ==
  /\ raised.stmt = "for_batch" /\ Notebook[raised.cell] = Cell20 /\ Done
  /\ e = 2 /\ printed = 2 /\ iterator.index = 1 /\ nsteps = 1
  /\ model.weight["weight"] # 0

\* C13: the loop works on one batch at a time.  When the forward pass of a
\* batch starts, the optimizer step of every earlier batch of the epoch is
\* over; the samples the iterator has delivered and that have not been
\* through a step are those of the one current batch; and inside the loop
\* the batch changes only at the head of the inner loop, where the next
\* batch of the iterator replaces it.
C13_OneBatchAtATime ==
  /\ []((InBody /\ Stmt \in {"flatten", "zero_grad", "forward"}) =>
          nsteps = iterator.index - 1)
  /\ [](InBody =>
          (TrainsetSize - iterator.remaining) - batch_size * (iterator.index - 1)
            = images.shape[1])
  /\ [][InLoop =>
          /\ (labels' # labels \/ images'.probes # images.probes
                 \/ iterator' # iterator) => Stmt \in {"for_batch", "iter"}
          /\ (Stmt = "for_batch" /\ ~Exhausted(iterator) /\ raised' = raised) =>
                /\ iterator'.index = iterator.index + 1
                /\ images'.shape = ImageShape(iterator.remaining - iterator'.remaining)
                /\ calls' = << >>]_vars

\* the forward pass of the second batch of an epoch is about to start and
\* the step of the first batch is over
C13_Witness ==
  /\ InBody /\ Stmt = "forward"
  /\ iterator.index = 2 /\ nsteps = 1 /\ e = 1
  /\ images.shape = <<32, 784>>

\* C14: flattening only reshapes.  For a batch of B images,
\* images.view(images.shape[0], -1) has B rows, one per image and in the
\* order of the batch, and row b holds the pixels of image b in row-major
\* order; the images and the labels are left as they were.
C14_FlattenOnlyReshapes ==
  /\ [](part2.inputs # NoData =>
          LET B == part2.images.shape[1]
              H == ImgShape[2]
              W == ImgShape[3]
          IN /\ part2.inputs.shape = <<B, Numel(ImgShape)>>
             /\ part2.labels.shape = <<B>>
             /\ \A b \in 0..(B - 1) : \A i \in 0..(H - 1) : \A j \in 0..(W - 1) :
                  At(part2.inputs, <<b, i * W + j>>) = At(part2.images, <<b, 0, i, j>>))
  /\ [][Running2("inputs_view") =>
          part2'.labels = part2.labels /\ part2'.images = part2.images]_vars

\* a batch of three images is flattened; the pixel set is the last of the
\* second image
C14_Witness ==
  /\ part2.inputs.shape = <<3, 4>>
  /\ part2.images.shape = <<3, 1, 2, 2>>
  /\ At(part2.images, <<1, 0, 1, 1>>) = 1
  /\ At(part2.inputs, <<1, 3>>) = 1
  /\ part2.labels.storage = <<0, 9, 0>>

\* C15: the hand-built network maps the flattened batch (B rows of
\* Numel(ImgShape) features, 64 x 784 in the notebook) to B x 10: no matrix
\* product or bias addition fails, their inner dimensions match
\* (features -> 256 -> 10), and softmax(out) has the shape of out, which
\* has the dimension 1 that the sum of its rows needs.
C15_HandBuiltShapes ==
  /\ part2.raised \notin {"weights", "layer1", "out", "softmax", "print_sum"}
  /\ part2.out # << >> =>
       LET B == part2.images.shape[1]
       IN /\ part2.inputs.shape = <<B, Numel(ImgShape)>>
          /\ part2.inputs.shape[2] = part2.w1[1]
          /\ part2.w1[2] = 256 /\ part2.b1 = <<256>>
          /\ part2.layer1 = <<B, 256>>
          /\ part2.layer1[2] = part2.w2[1]
          /\ part2.w2[2] = 10 /\ part2.b2 = <<10>>
          /\ part2.out = <<B, 10>>
  /\ part2.probabilities # << >> => part2.probabilities = part2.out

\* the softmax cell has run on the output of the hand-built network
C15_Witness ==
  /\ part2.raised = "" /\ Stmt2 = "class_network"
  /\ part2.out = <<2, 10>> /\ part2.probabilities = <<2, 10>>
  /\ part2.w1 = <<4, 256>> /\ part2.w2 = <<256, 10>>

\* C16 as stated: when the cells that read and initialise model.fc1 run,
\* the name model is bound to a network with the layers fc1, fc2 and fc3.
C16_ModelHasFc1 ==
  (part2.raised = "" /\ Stmt2 \in {"print_fc1", "fill_bias", "normal_weight"}) =>
    {"fc1", "fc2", "fc3"} \subseteq part2.model.attrs

\* C17: Network.forward takes the input through the hidden layer, the
\* sigmoid, the output layer and the softmax over dim=1, in this order, and
\* the module version and the functional version give the same output for
\* the same weights and input.
C17_ForwardOrderAndEquivalence ==
  fwd.module # << >> =>
    /\ fwd.module = fwd.functional
    /\ fwd.module =
         SoftmaxDim1(LinearFn(MapM(SigFix, LinearFn(fwd.x, fwd.net.hidden)),
                              fwd.net.output))
    /\ \A r \in 1..Len(fwd.x) : SumSeq(fwd.module[r].num) = fwd.module[r].den

\* both forward methods have run on a batch of two rows, whose outputs differ
C17_Witness ==
  /\ fn_pc = "softmax" /\ Len(fwd.x) = 2
  /\ Len(fwd.module) = 2 /\ Len(fwd.functional) = 2
  /\ fwd.module[1].num # fwd.module[2].num
  /\ fwd.module[1].num[1] # fwd.module[1].num[2]

\* C18: the prediction cell runs the forward pass with gradients off: no
\* statement of the cell changes a parameter or a gradient of the model, and
\* logps is outside the graph and does not require grad.
C18_PredictionLeavesModel ==
  /\ [](logps.shape # << >> => (~logps.requires_grad /\ logps.graph = 0))
  /\ [][(~Done /\ Notebook[cell] = Cell24) => model' = model]_vars

\* the prediction cell is over, on the model the loop trained
C18_Witness ==
  /\ Done /\ raised = NotRaised
  /\ logps.shape = <<1, 10>> /\ ~logps.requires_grad
  /\ model.nbackward > 0 /\ model.grad["weight"] = Some(1)
  /\ model.weight["weight"] # 0

\* C19: of the calls of a training step only optimizer.step() changes the
\* parameters: zero_grad, the forward pass, the criterion and backward leave
\* every weight and bias as it is, and step leaves every gradient as it is.
C19_OnlyStepChangesParams ==
  [][/\ (model'.id = model.id /\ model'.weight # model.weight) => Stmt = "step"
     /\ Stmt \in {"zero_grad", "forward", "forward_logits", "criterion",
                  "criterion_logits", "backward"} =>
          (model'.id = model.id /\ model'.weight = model.weight)
     /\ Stmt = "step" => model'.grad = model.grad]_vars

\* the step of the single-step cell has changed a weight and the gradients
\* are those of the backward pass
C19_Witness ==
  /\ ~Done /\ Notebook[cell] = Cell15 /\ Stmt = "print_weights"
  /\ model.weight["weight"] = 10 /\ model.grad["weight"] = Some(-1)
  /\ model.weight["bias"] = -10 /\ model.grad["bias"] = Some(1)

\* C20: whenever a loss is computed, the labels are classes 0..9, the
\* network has 10 output units, so every label indexes an entry of its output
\* row, and there are as many labels as output rows.
C20_LabelsWithinOutputs ==
  Stmt \in {"criterion", "criterion_logits"} =>
    LET res == IF Stmt = "criterion" THEN output ELSE logits
    IN /\ res.graph = model.id
       /\ OutFeatures(model.layers) = 10
       /\ res.shape[2] = 10
       /\ trainloader.classes # {}
       /\ \A c \in trainloader.classes :
            c \in 0..9 /\ c + 1 \in 1..res.shape[2]
       /\ labels.shape = <<res.shape[1]>>

\* the loss of the last, incomplete batch of an epoch is about to be computed
C20_Witness ==
  /\ InBody /\ Stmt = "criterion"
  /\ output.shape = <<32, 10>> /\ labels.shape = <<32>>
  /\ 9 \in trainloader.classes

====
